---- MODULE Spec2Model ----
(***************************************************************************)
(* Redmine MCP tools: the six tool handlers (tools.ts), the per-request    *)
(* credential resolution (getHeaderValue / getClientFromExtra) and the     *)
(* Redmine REST client (redmine/client.ts).                                *)
(*                                                                         *)
(* Text is a sequence of fragments (strings); "/" , "?" , "&" , "=" are    *)
(* fragments of their own, so concatenation, trailing-slash stripping and  *)
(* query strings are computed on the text and not assumed.                 *)
(* JavaScript values are tagged records; an object is an ordered sequence  *)
(* of [key, value] members, a missing member reads as undefined.           *)
(***************************************************************************)
EXTENDS Integers, Sequences, FiniteSets, TLC

\* ---------------------------------------------------------------- bounds
\* longest x-redmine-url text, in fragments
MaxUrlLen == 2
\* most optional tool arguments supplied in one invocation
MaxSupplied == 2
\* most tool invocations in flight at once
MaxInFlight == 2
\* the count of error responses returned so far saturates here
MaxFailures == 2

\* ---------------------------------------------------------------- state
VARIABLES
    invocations,  \* per slot: the handler activation running in it
    failures      \* error responses returned so far (saturating)

vars == <<invocations, failures>>

\* ------------------------------------------------------ JavaScript values
Undefined == [t |-> "undefined"]
Str(s) == [t |-> "string", v |-> s]
Num(n) == [t |-> "number", v |-> n]
Bool(b) == [t |-> "boolean", v |-> b]
Arr(a) == [t |-> "array", v |-> a]
Obj(members) == [t |-> "object", v |-> members]
Member(k, val) == [key |-> k, value |-> val]

\* o[k] / o?.k : undefined when o is no object or has no member k
Get(o, k) ==
    IF o.t = "object" /\ \E n \in DOMAIN o.v : o.v[n].key = k
    THEN o.v[CHOOSE n \in DOMAIN o.v : o.v[n].key = k].value
    ELSE Undefined

\* !v for the values the code tests: undefined and the empty string are falsy
Falsy(v) ==
    \/ v.t = "undefined"
    \/ v.t = "string" /\ v.v = <<>>
    \/ v.t = "number" /\ v.v = 0
    \/ v.t = "boolean" /\ v.v = FALSE

\* String(v) and `${v}` : a number is printed in decimal, a string is itself
String(v) ==
    CASE v.t = "string" -> v.v
      [] v.t = "number" -> <<ToString(v.v)>>
      [] v.t = "boolean" -> <<IF v.v THEN "true" ELSE "false">>
      [] OTHER -> <<"undefined">>

\* the members JSON.stringify keeps: a member whose value is undefined is dropped
Kept(members) == SelectSeq(members, LAMBDA m : m.value.t # "undefined")

RECURSIVE JSONstringify(_)
RECURSIVE JSONmembers(_)
RECURSIVE JSONelements(_)
\* JSON.stringify(v) for a defined v, as text
JSONstringify(v) ==
    CASE v.t = "string" -> <<"\"">> \o v.v \o <<"\"">>
      [] v.t = "number" -> <<ToString(v.v)>>
      [] v.t = "boolean" -> <<IF v.v THEN "true" ELSE "false">>
      [] v.t = "object" -> <<"{">> \o JSONmembers(Kept(v.v)) \o <<"}">>
      [] v.t = "array" -> <<"[">> \o JSONelements(v.v) \o <<"]">>
      [] OTHER -> <<"null">>
JSONelements(elements) ==
    IF elements = <<>> THEN <<>>
    ELSE JSONstringify(elements[1])
         \o (IF Len(elements) > 1 THEN <<",">> ELSE <<>>)
         \o JSONelements(Tail(elements))
JSONmembers(members) ==
    IF members = <<>> THEN <<>>
    ELSE <<"\"", members[1].key, "\"", ":">> \o JSONstringify(members[1].value)
         \o (IF Len(members) > 1 THEN <<",">> ELSE <<>>)
         \o JSONmembers(Tail(members))

\* ------------------------------------------------- credential resolution
\* a resolver that takes the last value of a list
getHeaderValue_last(headers, key) ==
    IF headers.t = "undefined" THEN Undefined
    ELSE LET value == Get(headers, key) IN
         IF value.t = "array"
         THEN (IF Len(value.v) > 0 THEN value.v[Len(value.v)] ELSE Undefined)
         ELSE value

\* tools.ts getHeaderValue
getHeaderValue(headers, key) ==
    IF headers.t = "undefined" THEN Undefined
    ELSE LET value == Get(headers, key) IN
         IF value.t = "array"
         THEN (IF Len(value.v) > 0 THEN value.v[1] ELSE Undefined)
         ELSE value

Threw(message) == [threw |-> TRUE, error |-> message, value |-> Undefined]
Returned(val) == [threw |-> FALSE, error |-> <<>>, value |-> val]

RECURSIVE StripTrailingSlash_all(_)
\* a pattern that takes every trailing slash, /\/+$/
StripTrailingSlash_all(s) ==
    IF Len(s) > 0 /\ s[Len(s)] = "/"
    THEN StripTrailingSlash_all(SubSeq(s, 1, Len(s) - 1))
    ELSE s

\* baseUrl.replace(/\/$/, '') : the one match of "/" at the end of the text, removed
StripTrailingSlash(s) ==
    IF Len(s) > 0 /\ s[Len(s)] = "/" THEN SubSeq(s, 1, Len(s) - 1) ELSE s

\* new RedmineClient(baseUrl, apiKey)
RedmineClient(baseUrl, apiKey) ==
    IF Falsy(baseUrl)
    THEN Threw(<<"Redmine URL is not configured. Set x-redmine-url header.">>)
    ELSE IF Falsy(apiKey)
    THEN Threw(<<"Redmine API Key is not configured. Set x-redmine-api-key header.">>)
    ELSE Returned([t |-> "client",
                   baseUrl |-> StripTrailingSlash(baseUrl.v),
                   apiKey |-> apiKey.v])

\* a resolver that falls back to a configured default instance instead of failing
getClientFromExtra_fallback(extra) ==
    LET headers == Get(Get(extra, "requestInfo"), "headers")
        redmineUrl == getHeaderValue(headers, "x-redmine-url")
        redmineApiKey == getHeaderValue(headers, "x-redmine-api-key")
    IN RedmineClient(IF Falsy(redmineUrl) THEN Str(<<"http://localhost:3001">>) ELSE redmineUrl,
                     IF Falsy(redmineApiKey) THEN Str(<<"default-key">>) ELSE redmineApiKey)

\* tools.ts getClientFromExtra
getClientFromExtra(extra) ==
    LET headers == Get(Get(extra, "requestInfo"), "headers") IN
    IF Falsy(headers)
    THEN Threw(<<"Request headers not available">>)
    ELSE LET redmineUrl == getHeaderValue(headers, "x-redmine-url")
             redmineApiKey == getHeaderValue(headers, "x-redmine-api-key")
         IN IF Falsy(redmineUrl) \/ Falsy(redmineApiKey)
            THEN Threw(<<"Redmine configuration not found. ",
                         "Set x-redmine-url and x-redmine-api-key headers in your request.">>)
            ELSE RedmineClient(redmineUrl, redmineApiKey)

\* ------------------------------------------------------- Redmine client
\* a request built from one client shared by all invocations (the first one made)
request_sharedClient(client, method, path, body) ==
    LET made == { j \in DOMAIN invocations : invocations[j].client.t = "client" }
        shared == IF made = {} THEN client
                  ELSE invocations[CHOOSE j \in made : \A k \in made : j <= k].client
    IN [url |-> shared.baseUrl \o path,
        method |-> method,
        headers |-> Obj(<<Member("X-Redmine-API-Key", Str(shared.apiKey)),
                          Member("Content-Type", Str(<<"application/json">>))>>),
        body |-> IF Falsy(body) THEN Undefined ELSE Str(JSONstringify(body))]

\* the fetch(url, {method, headers, body}) call of RedmineClient.request
request(client, method, path, body) ==
    [url |-> client.baseUrl \o path,
     method |-> method,
     headers |-> Obj(<<Member("X-Redmine-API-Key", Str(client.apiKey)),
                       Member("Content-Type", Str(<<"application/json">>))>>),
     body |-> IF Falsy(body) THEN Undefined ELSE Str(JSONstringify(body))]

\* response.ok
ResponseOk(response) == response.status >= 200 /\ response.status <= 299

\* the values a Redmine response body is decoded to
JSONValues ==
    { Obj(<<Member("issue", Obj(<<Member("id", Num(1)),
                                  Member("subject", Str(<<"Printer on fire">>))>>))>>),
      Obj(<<Member("project", Obj(<<Member("id", Num(1))>>))>>),
      Obj(<<Member("projects", Arr(<<>>)), Member("total_count", Num(0))>>),
      Obj(<<Member("issues", Arr(<<>>)), Member("total_count", Num(0))>>),
      Obj(<<Member("errors", Arr(<<Str(<<"Subject cannot be blank">>)>>))>>) }

\* response.json() : the value whose JSON text the body is, or a SyntaxError
JSONparse(text) ==
    IF \E v \in JSONValues : JSONstringify(v) = text
    THEN Returned(CHOOSE v \in JSONValues : JSONstringify(v) = text)
    ELSE Threw(<<"Unexpected token in JSON">>)

\* a request() that reports a non-success status without reading the body
requestSettled_statusOnly(response) ==
    IF ~ResponseOk(response)
    THEN Threw(<<"Redmine API error: ", ToString(response.status)>>)
    ELSE IF \/ response.status = 204
            \/ Get(response.headers, "content-length") = Str(<<"0">>)
    THEN Returned(Obj(<<>>))
    ELSE JSONparse(response.body)

\* a request() that decodes every success response
requestSettled_alwaysDecodes(response) ==
    IF ~ResponseOk(response)
    THEN Threw(<<"Redmine API error: ", ToString(response.status), " - ">> \o response.body)
    ELSE JSONparse(response.body)

\* RedmineClient.request after fetch has resolved with `response`
requestSettled(response) ==
    IF ~ResponseOk(response)
    THEN Threw(<<"Redmine API error: ", ToString(response.status), " - ">> \o response.body)
    ELSE IF \/ response.status = 204
            \/ Get(response.headers, "content-length") = Str(<<"0">>)
    THEN Returned(Obj(<<>>))
    ELSE JSONparse(response.body)

\* application/x-www-form-urlencoded serialisation of one fragment
FormEncodeFragment(f) ==
    CASE f = ":" -> "%3A"
      [] f = "," -> "%2C"
      [] f = " " -> "+"
      [] f = "/" -> "%2F"
      [] OTHER -> f
FormEncode(s) == [n \in DOMAIN s |-> FormEncodeFragment(s[n])]

\* URLSearchParams.set(key, value)
QuerySet(query, key, text) ==
    IF \E n \in DOMAIN query : query[n].key = key
    THEN [n \in DOMAIN query |-> IF query[n].key = key THEN Member(key, text) ELSE query[n]]
    ELSE Append(query, Member(key, text))

RECURSIVE QueryToString(_)
\* URLSearchParams.toString()
QueryToString(query) ==
    IF query = <<>> THEN <<>>
    ELSE FormEncode(<<query[1].key>>) \o <<"=">> \o FormEncode(query[1].value)
         \o (IF Len(query) > 1 THEN <<"&">> ELSE <<>>)
         \o QueryToString(Tail(query))

\* query.set(k, String(params.k)) without the test for undefined
SetIfDefined_unguarded(query, params, key) ==
    QuerySet(query, key, String(Get(params, key)))

\* if (params?.k !== undefined) query.set(k, String(params.k))
SetIfDefined(query, params, key) ==
    IF Get(params, key).t # "undefined"
    THEN QuerySet(query, key, String(Get(params, key)))
    ELSE query

\* if (params?.k) query.set(k, params.k)
SetIfTruthy(query, params, key) ==
    IF ~Falsy(Get(params, key))
    THEN QuerySet(query, key, String(Get(params, key)))
    ELSE query

\* `${queryString ? `?${queryString}` : ''}`
QuerySuffix(queryString) ==
    IF queryString # <<>> THEN <<"?">> \o queryString ELSE <<>>

listProjects(client, params) ==
    LET query == SetIfTruthy(SetIfDefined(SetIfDefined(<<>>, params, "offset"),
                                          params, "limit"), params, "include")
        path == <<"/", "projects.json">> \o QuerySuffix(QueryToString(query))
    IN request(client, "GET", path, Undefined)

getProject(client, id, include) ==
    LET query == IF ~Falsy(include) THEN QuerySet(<<>>, "include", String(include)) ELSE <<>>
        path == <<"/", "projects", "/">> \o String(id) \o <<".json">>
                \o QuerySuffix(QueryToString(query))
    IN request(client, "GET", path, Undefined)

listIssues(client, params) ==
    LET q1 == SetIfDefined(<<>>, params, "offset")
        q2 == SetIfDefined(q1, params, "limit")
        q3 == SetIfTruthy(q2, params, "sort")
        q4 == SetIfTruthy(q3, params, "include")
        q5 == SetIfDefined(q4, params, "project_id")
        q6 == SetIfDefined(q5, params, "tracker_id")
        q7 == SetIfDefined(q6, params, "status_id")
        query == SetIfDefined(q7, params, "assigned_to_id")
        path == <<"/", "issues.json">> \o QuerySuffix(QueryToString(query))
    IN request(client, "GET", path, Undefined)

getIssue(client, id, include) ==
    LET query == IF ~Falsy(include) THEN QuerySet(<<>>, "include", String(include)) ELSE <<>>
        path == <<"/", "issues", "/">> \o String(id) \o <<".json">>
                \o QuerySuffix(QueryToString(query))
    IN request(client, "GET", path, Undefined)

createIssue(client, params) ==
    request(client, "POST", <<"/", "issues.json">>, Obj(<<Member("issue", params)>>))

updateIssue(client, id, params) ==
    request(client, "PUT", <<"/", "issues", "/">> \o String(id) \o <<".json">>,
            Obj(<<Member("issue", params)>>))

\* ------------------------------------------------------- tool arguments
\* One entry per member of a tool's inputSchema, in schema order: whether it is
\* required, a typical value and an edge value of its declared type.
Arg(k, req, typical, edge) == [key |-> k, required |-> req, typical |-> typical, edge |-> edge]

list_projects_schema ==
    << Arg("offset", FALSE, Num(25), Num(0)),
       Arg("limit", FALSE, Num(100), Num(1)),
       Arg("include", FALSE, Str(<<"trackers", ",", "enabled_modules">>), Str(<<>>)) >>

get_project_schema ==
    << Arg("id", TRUE, Str(<<"demo">>), Num(1)),
       Arg("include", FALSE, Str(<<"trackers">>), Str(<<>>)) >>

list_issues_schema ==
    << Arg("project_id", FALSE, Str(<<"demo">>), Num(1)),
       Arg("status_id", FALSE, Str(<<"open">>), Num(0)),
       Arg("assigned_to_id", FALSE, Str(<<"me">>), Str(<<>>)),
       Arg("tracker_id", FALSE, Num(2), Num(0)),
       Arg("offset", FALSE, Num(25), Num(0)),
       Arg("limit", FALSE, Num(100), Num(1)),
       Arg("sort", FALSE, Str(<<"updated_on", ":", "desc">>), Str(<<>>)),
       Arg("include", FALSE, Str(<<"attachments", ",", "relations">>), Str(<<>>)) >>

get_issue_schema ==
    << Arg("id", TRUE, Num(42), Num(0)),
       Arg("include", FALSE, Str(<<"journals">>), Str(<<>>)) >>

create_issue_schema ==
    << Arg("project_id", TRUE, Str(<<"demo">>), Num(1)),
       Arg("subject", TRUE, Str(<<"Printer on fire">>), Str(<<>>)),
       Arg("description", FALSE, Str(<<"It burns">>), Str(<<>>)),
       Arg("tracker_id", FALSE, Num(2), Num(0)),
       Arg("status_id", FALSE, Num(3), Num(0)),
       Arg("priority_id", FALSE, Num(4), Num(0)),
       Arg("assigned_to_id", FALSE, Num(5), Num(0)),
       Arg("category_id", FALSE, Num(6), Num(0)),
       Arg("parent_issue_id", FALSE, Num(7), Num(0)),
       Arg("estimated_hours", FALSE, Num(8), Num(0)),
       Arg("start_date", FALSE, Str(<<"2026-01-01">>), Str(<<>>)),
       Arg("due_date", FALSE, Str(<<"2026-01-31">>), Str(<<>>)) >>

update_issue_schema ==
    << Arg("id", TRUE, Num(42), Num(0)),
       Arg("subject", FALSE, Str(<<"Printer on fire">>), Str(<<>>)),
       Arg("description", FALSE, Str(<<"It burns">>), Str(<<>>)),
       Arg("tracker_id", FALSE, Num(2), Num(0)),
       Arg("status_id", FALSE, Num(3), Num(0)),
       Arg("priority_id", FALSE, Num(4), Num(0)),
       Arg("assigned_to_id", FALSE, Num(5), Num(0)),
       Arg("category_id", FALSE, Num(6), Num(0)),
       Arg("parent_issue_id", FALSE, Num(7), Num(0)),
       Arg("estimated_hours", FALSE, Num(8), Num(0)),
       Arg("start_date", FALSE, Str(<<"2026-01-01">>), Str(<<>>)),
       Arg("due_date", FALSE, Str(<<"2026-01-31">>), Str(<<>>)),
       Arg("done_ratio", FALSE, Num(50), Num(0)),
       Arg("notes", FALSE, Str(<<"Still burning">>), Str(<<>>)),
       Arg("private_notes", FALSE, Bool(TRUE), Bool(FALSE)) >>

Schema(tool) ==
    CASE tool = "list_projects" -> list_projects_schema
      [] tool = "get_project" -> get_project_schema
      [] tool = "list_issues" -> list_issues_schema
      [] tool = "get_issue" -> get_issue_schema
      [] tool = "create_issue" -> create_issue_schema
      [] tool = "update_issue" -> update_issue_schema

Tools ==
    {"list_projects", "get_project", "list_issues", "get_issue", "create_issue", "update_issue"}

OptionalKeys(tool) == { Schema(tool)[n].key : n \in { m \in DOMAIN Schema(tool) : ~Schema(tool)[m].required } }

\* the argument object a schema admits with the members numbered in `supplied`
\* present (the required ones always are), taking edge values when `edge`
ArgsObject(schema, supplied, edge) ==
    LET present == SelectSeq([n \in DOMAIN schema |-> [a |-> schema[n], n |-> n]],
                             LAMBDA e : e.a.required \/ e.n \in supplied)
    IN Obj([n \in DOMAIN present |->
              Member(present[n].a.key,
                     IF edge THEN present[n].a.edge ELSE present[n].a.typical)])

\* every argument object with at most `most` optional members supplied
ArgsUpTo(schema, most) ==
    { ArgsObject(schema, supplied, edge) :
        supplied \in { S \in SUBSET { n \in DOMAIN schema : ~schema[n].required } :
                         Cardinality(S) <= most },
        edge \in BOOLEAN }

\* --------------------------------------------------------------- inputs
\* a fragment standing for a scheme and host, "https://host": text without
\* a trailing slash
Origin == "https://redmine.example"
OtherOrigin == "https://other.example"

RECURSIVE TextsUpTo(_, _)
\* every text of at most n fragments over an alphabet
TextsUpTo(alphabet, n) ==
    IF n = 0 THEN {<<>>}
    ELSE LET shorter == TextsUpTo(alphabet, n - 1)
         IN shorter \cup { Append(s, f) : s \in shorter, f \in alphabet }

UrlTexts == TextsUpTo({Origin, "/"}, MaxUrlLen)

\* what the transport may hold for x-redmine-url: nothing, one value, a list
UrlHeaderValues ==
    {Undefined, Arr(<<>>)}
    \cup { Str(s) : s \in UrlTexts }
    \cup { Arr(<<Str(s), Str(<<OtherOrigin>>)>>) : s \in {<<>>, <<Origin>>, <<Origin, "/">>} }

KeyHeaderValues ==
    {Undefined, Arr(<<>>), Str(<<>>), Str(<<"key-a">>),
     Arr(<<Str(<<"key-b">>), Str(<<"key-a">>)>>)}

\* a header mapping holds a member only for a header that was sent
HeaderMapping(url, key) ==
    Obj(SelectSeq(<<Member("x-redmine-url", url), Member("x-redmine-api-key", key)>>,
                  LAMBDA m : m.value.t # "undefined"))

ExtraWith(headers) == Obj(<<Member("requestInfo", Obj(<<Member("headers", headers)>>))>>)

\* the `extra` a handler may be handed: no requestInfo, no headers, or a mapping
Extras ==
    {Obj(<<>>), Obj(<<Member("requestInfo", Obj(<<>>))>>)}
    \cup { ExtraWith(HeaderMapping(u, k)) : u \in UrlHeaderValues, k \in KeyHeaderValues }

\* two callers with their own Redmine instance and key, and one without headers
TenantExtras ==
    { Obj(<<>>),
      ExtraWith(HeaderMapping(Str(<<Origin, "/">>), Str(<<"key-a">>))),
      ExtraWith(HeaderMapping(Str(<<OtherOrigin>>), Str(<<"key-b">>))) }

Response(status, contentLength, body) ==
    [t |-> "response",
     status |-> status,
     headers |-> Obj(SelectSeq(<<Member("content-length", contentLength)>>,
                               LAMBDA m : m.value.t # "undefined")),
     body |-> body]

BodyTexts == {<<>>, <<"<html>">>} \cup { JSONstringify(v) : v \in JSONValues }

\* the responses Redmine (or a proxy in front of it) may give: a 204 and a
\* zero content-length come with an empty body, a stated length with the body's
Responses ==
    { Response(204, cl, <<>>) : cl \in {Undefined, Str(<<"0">>)} }
    \cup { Response(st, Undefined, b) : st \in {200, 201, 404, 422}, b \in BodyTexts }
    \cup { Response(st, Str(<<"0">>), <<>>) : st \in {200, 201, 404, 422} }
    \cup { Response(st, Str(<<ToString(Len(b))>>), b) :
             st \in {200, 201, 404, 422}, b \in BodyTexts \ {<<>>} }

\* ---------------------------------------------------- handler activations

Idle ==
    [pc |-> "idle", tool |-> "", args |-> Undefined, extra |-> Undefined,
     client |-> Undefined, sent |-> <<>>, reply |-> Undefined, raised |-> "none",
     result |-> Undefined, completion |-> "pending", response |-> Undefined,
     priorFailures |-> 0]

\* a handler whose catch only handles what the resolver throws: a failure of the
\* awaited call leaves the handler as a rejection
Handled_uncaughtAwait(outcome) ==
    IF outcome.threw /\ outcome.error[1] \notin {"Request headers not available",
                                                "Redmine configuration not found. "}
    THEN [completion |-> "rejected", response |-> Undefined]
    ELSE [completion |-> "returned",
          response |-> [t |-> "toolResult",
                        content |-> <<[type |-> "text",
                                       text |-> IF outcome.threw
                                                THEN <<"Error: ">> \o outcome.error
                                                ELSE JSONstringify(outcome.value)]>>,
                        isError |-> outcome.threw]]

\* the handler's try { ... return content } catch (error) { return isError content };
\* the prefix fragment stands for the Japanese prefix of the error text
Handled(outcome) ==
    IF outcome.threw
    THEN [completion |-> "returned",
          response |-> [t |-> "toolResult",
                        content |-> <<[type |-> "text",
                                       text |-> <<"Error: ">> \o outcome.error]>>,
                        isError |-> TRUE]]
    ELSE [completion |-> "returned",
          response |-> [t |-> "toolResult",
                        content |-> <<[type |-> "text",
                                       text |-> JSONstringify(outcome.value)]>>,
                        isError |-> FALSE]]

\* the handler up to its await: credentials are resolved; a failure is caught at
\* once, otherwise the client method has called fetch and the handler is suspended
Begin(i, tool, args, extra, got, call) ==
    /\ invocations[i].pc = "idle"
    /\ invocations' = [invocations EXCEPT ![i] =
          IF got.threw
          THEN [Idle EXCEPT !.pc = "done", !.tool = tool, !.args = args, !.extra = extra,
                            !.raised = "configuration",
                            !.completion = Handled(got).completion,
                            !.response = Handled(got).response,
                            !.priorFailures = failures]
          ELSE [Idle EXCEPT !.pc = "awaiting", !.tool = tool, !.args = args,
                            !.extra = extra, !.client = got.value, !.sent = <<call>>,
                            !.priorFailures = failures]]
    /\ UNCHANGED failures

list_projects(i, args, extra) ==
    LET got == getClientFromExtra(extra) IN
    Begin(i, "list_projects", args, extra, got,
          listProjects(got.value,
                       Obj(<<Member("offset", Get(args, "offset")),
                             Member("limit", Get(args, "limit")),
                             Member("include", Get(args, "include"))>>)))

get_project(i, args, extra) ==
    LET got == getClientFromExtra(extra) IN
    Begin(i, "get_project", args, extra, got,
          getProject(got.value, Get(args, "id"), Get(args, "include")))

list_issues(i, args, extra) ==
    LET got == getClientFromExtra(extra) IN
    Begin(i, "list_issues", args, extra, got,
          listIssues(got.value,
                     Obj(<<Member("project_id", Get(args, "project_id")),
                           Member("status_id", Get(args, "status_id")),
                           Member("assigned_to_id", Get(args, "assigned_to_id")),
                           Member("tracker_id", Get(args, "tracker_id")),
                           Member("offset", Get(args, "offset")),
                           Member("limit", Get(args, "limit")),
                           Member("sort", Get(args, "sort")),
                           Member("include", Get(args, "include"))>>)))

get_issue(i, args, extra) ==
    LET got == getClientFromExtra(extra) IN
    Begin(i, "get_issue", args, extra, got,
          getIssue(got.value, Get(args, "id"), Get(args, "include")))

create_issue(i, args, extra) ==
    LET got == getClientFromExtra(extra) IN
    Begin(i, "create_issue", args, extra, got,
          createIssue(got.value,
                      Obj(<<Member("project_id", Get(args, "project_id")),
                            Member("subject", Get(args, "subject")),
                            Member("description", Get(args, "description")),
                            Member("tracker_id", Get(args, "tracker_id")),
                            Member("status_id", Get(args, "status_id")),
                            Member("priority_id", Get(args, "priority_id")),
                            Member("assigned_to_id", Get(args, "assigned_to_id")),
                            Member("category_id", Get(args, "category_id")),
                            Member("parent_issue_id", Get(args, "parent_issue_id")),
                            Member("estimated_hours", Get(args, "estimated_hours")),
                            Member("start_date", Get(args, "start_date")),
                            Member("due_date", Get(args, "due_date"))>>)))

\* an update that passes the whole argument object on
RestWithoutId_whole(args) == args

\* const { id, ...updateParams } = args
RestWithoutId(args) == Obj(SelectSeq(args.v, LAMBDA m : m.key # "id"))

update_issue(i, args, extra) ==
    LET got == getClientFromExtra(extra) IN
    Begin(i, "update_issue", args, extra, got,
          updateIssue(got.value, Get(args, "id"), RestWithoutId(args)))

\* the awaited client call has settled with `outcome`: the handler resumes,
\* returns the content or catches the failure
Settle(i, outcome, raised, reply) ==
    /\ invocations[i].pc = "awaiting"
    /\ invocations' = [invocations EXCEPT ![i].pc = "done",
                                          ![i].reply = reply,
                                          ![i].raised = raised,
                                          ![i].result = outcome.value,
                                          ![i].completion = Handled(outcome).completion,
                                          ![i].response = Handled(outcome).response]
    /\ UNCHANGED failures

\* a client that sends the request again when fetch rejects
FetchRejected_retry(i) ==
    /\ invocations[i].pc = "awaiting"
    /\ invocations' = [invocations EXCEPT ![i].sent = Append(@, @[1])]
    /\ UNCHANGED failures

\* fetch rejects: no response was received
FetchRejected(i) == Settle(i, Threw(<<"fetch failed">>), "network", Undefined)

\* fetch resolves with a response; request() checks and decodes it
FetchResolved(i, response) ==
    LET outcome == requestSettled(response) IN
    Settle(i, outcome,
           IF ~outcome.threw THEN "none"
           ELSE IF ~ResponseOk(response) THEN "api" ELSE "decode",
           response)

\* the handler's promise resolves: the response goes back to the MCP client and
\* the activation, with its client object, is gone
Return(i) ==
    /\ invocations[i].pc = "done"
    /\ invocations[i].completion = "returned"
    /\ failures' = IF invocations[i].response.isError /\ failures < MaxFailures
                   THEN failures + 1 ELSE failures
    /\ invocations' = [invocations EXCEPT ![i] = Idle]

\* ------------------------------------------------------- specifications
\* argument objects with the required members only, per tool
list_projects_required == ArgsUpTo(list_projects_schema, 0)
get_project_required == ArgsUpTo(get_project_schema, 0)
list_issues_required == ArgsUpTo(list_issues_schema, 0)
get_issue_required == ArgsUpTo(get_issue_schema, 0)
create_issue_required == ArgsUpTo(create_issue_schema, 0)
update_issue_required == ArgsUpTo(update_issue_schema, 0)

\* One invocation after another, over every header mapping and every response.
Init ==
    /\ invocations = [i \in {1} |-> Idle]
    /\ failures = 0

CallListProjects ==
    \E i \in DOMAIN invocations, extra \in Extras, args \in list_projects_required :
        list_projects(i, args, extra)
CallGetProject ==
    \E i \in DOMAIN invocations, extra \in Extras, args \in get_project_required :
        get_project(i, args, extra)
CallListIssues ==
    \E i \in DOMAIN invocations, extra \in Extras, args \in list_issues_required :
        list_issues(i, args, extra)
CallGetIssue ==
    \E i \in DOMAIN invocations, extra \in Extras, args \in get_issue_required :
        get_issue(i, args, extra)
CallCreateIssue ==
    \E i \in DOMAIN invocations, extra \in Extras, args \in create_issue_required :
        create_issue(i, args, extra)
CallUpdateIssue ==
    \E i \in DOMAIN invocations, extra \in Extras, args \in update_issue_required :
        update_issue(i, args, extra)
FetchRejects == \E i \in DOMAIN invocations : FetchRejected(i)
FetchResolves == \E i \in DOMAIN invocations, response \in Responses : FetchResolved(i, response)
HandlerReturns == \E i \in DOMAIN invocations : Return(i)

Next ==
    \/ CallListProjects
    \/ CallGetProject
    \/ CallListIssues
    \/ CallGetIssue
    \/ CallCreateIssue
    \/ CallUpdateIssue
    \/ FetchRejects
    \/ FetchResolves
    \/ HandlerReturns

Spec == Init /\ [][Next]_vars

\* --------------------------------------------------------------------------
\* One invocation by a caller with valid headers (or with none), over every
\* choice of at most MaxSupplied optional arguments.
list_projects_args == ArgsUpTo(list_projects_schema, MaxSupplied)
get_project_args == ArgsUpTo(get_project_schema, MaxSupplied)
list_issues_args == ArgsUpTo(list_issues_schema, MaxSupplied)
get_issue_args == ArgsUpTo(get_issue_schema, MaxSupplied)
create_issue_args == ArgsUpTo(create_issue_schema, MaxSupplied)
update_issue_args == ArgsUpTo(update_issue_schema, MaxSupplied)

IssueResponse ==
    Response(200, Undefined,
             JSONstringify(Obj(<<Member("issue",
                                        Obj(<<Member("id", Num(1)),
                                              Member("subject", Str(<<"Printer on fire">>))>>))>>)))
ErrorsResponse ==
    Response(422, Undefined,
             JSONstringify(Obj(<<Member("errors", Arr(<<Str(<<"Subject cannot be blank">>)>>))>>)))

NoContentResponse == Response(204, Undefined, <<>>)

ArgsListProjects ==
    \E i \in DOMAIN invocations, extra \in TenantExtras, args \in list_projects_args :
        list_projects(i, args, extra)
ArgsGetProject ==
    \E i \in DOMAIN invocations, extra \in TenantExtras, args \in get_project_args :
        get_project(i, args, extra)
ArgsListIssues ==
    \E i \in DOMAIN invocations, extra \in TenantExtras, args \in list_issues_args :
        list_issues(i, args, extra)
ArgsGetIssue ==
    \E i \in DOMAIN invocations, extra \in TenantExtras, args \in get_issue_args :
        get_issue(i, args, extra)
ArgsCreateIssue ==
    \E i \in DOMAIN invocations, extra \in TenantExtras, args \in create_issue_args :
        create_issue(i, args, extra)
ArgsUpdateIssue ==
    \E i \in DOMAIN invocations, extra \in TenantExtras, args \in update_issue_args :
        update_issue(i, args, extra)
ArgsFetchResolves ==
    \E i \in DOMAIN invocations,
       response \in {IssueResponse, ErrorsResponse, NoContentResponse} :
        FetchResolved(i, response)

NextArguments ==
    \/ ArgsListProjects
    \/ ArgsGetProject
    \/ ArgsListIssues
    \/ ArgsGetIssue
    \/ ArgsCreateIssue
    \/ ArgsUpdateIssue
    \/ FetchRejects
    \/ ArgsFetchResolves

SpecArguments == Init /\ [][NextArguments]_vars

\* --------------------------------------------------------------------------
\* MaxInFlight invocations from different callers, begun and settled in any
\* interleaving; each slot serves one invocation.
list_projects_typical == {ArgsObject(list_projects_schema, {}, FALSE)}
get_project_typical == {ArgsObject(get_project_schema, {}, FALSE)}
list_issues_typical == {ArgsObject(list_issues_schema, {}, FALSE)}
get_issue_typical == {ArgsObject(get_issue_schema, {}, FALSE)}
create_issue_typical == {ArgsObject(create_issue_schema, {}, FALSE)}
update_issue_typical == {ArgsObject(update_issue_schema, {}, FALSE)}

InitConcurrent ==
    /\ invocations = [i \in 1..MaxInFlight |-> Idle]
    /\ failures = 0

ConcListProjects ==
    \E i \in DOMAIN invocations, extra \in TenantExtras, args \in list_projects_typical :
        list_projects(i, args, extra)
ConcGetProject ==
    \E i \in DOMAIN invocations, extra \in TenantExtras, args \in get_project_typical :
        get_project(i, args, extra)
ConcListIssues ==
    \E i \in DOMAIN invocations, extra \in TenantExtras, args \in list_issues_typical :
        list_issues(i, args, extra)
ConcGetIssue ==
    \E i \in DOMAIN invocations, extra \in TenantExtras, args \in get_issue_typical :
        get_issue(i, args, extra)
ConcCreateIssue ==
    \E i \in DOMAIN invocations, extra \in TenantExtras, args \in create_issue_typical :
        create_issue(i, args, extra)
ConcUpdateIssue ==
    \E i \in DOMAIN invocations, extra \in TenantExtras, args \in update_issue_typical :
        update_issue(i, args, extra)

ConcFetchResolves ==
    \E i \in DOMAIN invocations, response \in {IssueResponse, ErrorsResponse} :
        FetchResolved(i, response)

NextConcurrent ==
    \/ ConcListProjects
    \/ ConcGetProject
    \/ ConcListIssues
    \/ ConcGetIssue
    \/ ConcCreateIssue
    \/ ConcUpdateIssue
    \/ FetchRejects
    \/ ConcFetchResolves

SpecConcurrent == InitConcurrent /\ [][NextConcurrent]_vars

\* ==========================================================================
\* Properties
\* ==========================================================================
Begun == { i \in DOMAIN invocations : invocations[i].pc # "idle" }
Done == { i \in DOMAIN invocations : invocations[i].pc = "done" }

Contains(text, fragment) == \E n \in DOMAIN text : text[n] = fragment
ContainsText(text, part) ==
    \E k \in 0..(Len(text) - Len(part)) : SubSeq(text, k + 1, k + Len(part)) = part

\* what an invocation was handed, read off its input
HeadersOf(i) == Get(Get(invocations[i].extra, "requestInfo"), "headers")
UrlHeaderOf(i) == Get(HeadersOf(i), "x-redmine-url")
KeyHeaderOf(i) == Get(HeadersOf(i), "x-redmine-api-key")

\* a header that is missing or empty: not sent, sent empty, or a list that is
\* empty or starts with an empty value
MissingOrEmpty(value) ==
    \/ value.t = "undefined"
    \/ value.t = "string" /\ value.v = <<>>
    \/ value.t = "array" /\ (value.v = <<>> \/ value.v[1].v = <<>>)

\* the text of a header that is not missing
HeaderText(value) == IF value.t = "array" THEN value.v[1].v ELSE value.v

CredentialsMissing(i) ==
    \/ HeadersOf(i).t = "undefined"
    \/ MissingOrEmpty(UrlHeaderOf(i))
    \/ MissingOrEmpty(KeyHeaderOf(i))

ResponseText(i) == invocations[i].response.content[1].text

ConfigurationMessages ==
    { <<"Request headers not available">>,
      <<"Redmine configuration not found. ",
        "Set x-redmine-url and x-redmine-api-key headers in your request.">>,
      <<"Redmine URL is not configured. Set x-redmine-url header.">>,
      <<"Redmine API Key is not configured. Set x-redmine-api-key header.">> }

\* C1: an invocation of any tool whose headers are unavailable, or whose
\* x-redmine-url or x-redmine-api-key is missing or empty, fails credential
\* resolution with a configuration error, ends in an error-flagged response and
\* has made no outbound call.
C1_MissingCredentialsFailWithoutCall ==
    \A i \in Begun :
        CredentialsMissing(i) =>
            /\ invocations[i].pc = "done"
            /\ invocations[i].raised = "configuration"
            /\ invocations[i].completion = "returned"
            /\ invocations[i].response.isError
            /\ \E m \in ConfigurationMessages : ContainsText(ResponseText(i), m)
            /\ invocations[i].sent = <<>>
            /\ invocations[i].client.t = "undefined"

\* a create_issue invocation with a usable URL whose API key list starts with nothing
C1_Witness ==
    \E i \in Done :
        /\ invocations[i].tool = "create_issue"
        /\ HeadersOf(i).t = "object"
        /\ ~MissingOrEmpty(UrlHeaderOf(i))
        /\ KeyHeaderOf(i) = Arr(<<>>)
        /\ invocations[i].response.isError
        /\ invocations[i].sent = <<>>

\* the message each kind of failure carries
FailureMessageShown(i) ==
    LET text == ResponseText(i) IN
    CASE invocations[i].raised = "configuration" ->
            \E m \in ConfigurationMessages : ContainsText(text, m)
      [] invocations[i].raised = "network" -> ContainsText(text, <<"fetch failed">>)
      [] invocations[i].raised = "api" ->
            ContainsText(text, <<"Redmine API error: ">>)
      [] invocations[i].raised = "decode" ->
            ContainsText(text, <<"Unexpected token in JSON">>)
      [] OTHER -> FALSE

\* C2: every failure raised inside an invocation (configuration, network, non-2xx,
\* JSON decode) is caught by the handler and returned as a response with isError
\* true whose text carries the failure's message, and an invocation with valid
\* headers that follows failed ones is served like any other: it sends its
\* request and, answered with a decodable success, returns a non-error response.
C2_FailuresAreCaughtAndServingContinues ==
    \A i \in Begun :
        /\ invocations[i].pc = "done" =>
              /\ invocations[i].completion = "returned"
              /\ invocations[i].response.isError = (invocations[i].raised # "none")
              /\ invocations[i].raised # "none" => FailureMessageShown(i)
        /\ (invocations[i].priorFailures > 0 /\ ~CredentialsMissing(i)) =>
              /\ Len(invocations[i].sent) = 1
              /\ ( /\ invocations[i].pc = "done"
                   /\ invocations[i].reply.t = "response"
                   /\ invocations[i].reply.status = 200
                   /\ invocations[i].reply.body = IssueResponse.body
                   /\ Get(invocations[i].reply.headers, "content-length").t = "undefined" )
                 => /\ ~invocations[i].response.isError
                    /\ ResponseText(i) = IssueResponse.body

\* after MaxFailures error responses, an invocation is served and succeeds
C2_Witness ==
    \E i \in Done :
        /\ invocations[i].priorFailures = MaxFailures
        /\ invocations[i].raised = "none"
        /\ ~invocations[i].response.isError
        /\ ResponseText(i) = IssueResponse.body

MethodOf(tool) ==
    CASE tool = "create_issue" -> "POST"
      [] tool = "update_issue" -> "PUT"
      [] OTHER -> "GET"

\* C3: an invocation whose credentials resolve has issued exactly one outbound
\* request, with its tool's method, from the moment it awaits until it has
\* responded: none is skipped because the same invocation is already in flight
\* or was made before, and none is repeated after a failure.
C3_ExactlyOneRequestPerInvocation ==
    \A i \in Begun :
        ~CredentialsMissing(i) =>
            /\ Len(invocations[i].sent) = 1
            /\ invocations[i].sent[1].method = MethodOf(invocations[i].tool)

\* two create_issue invocations with the same arguments and headers have each
\* sent their own POST, one of them having failed on the network
C3_Witness ==
    \E i, j \in Done :
        /\ i # j
        /\ invocations[i].tool = "create_issue"
        /\ invocations[j].tool = "create_issue"
        /\ invocations[i].args = invocations[j].args
        /\ invocations[i].extra = invocations[j].extra
        /\ invocations[i].raised = "network"
        /\ invocations[i].sent = invocations[j].sent
        /\ Len(invocations[j].sent) = 1
        /\ invocations[j].sent[1].method = "POST"

\* C4: in any interleaving of in-flight invocations, each invocation's request
\* goes to the base URL of its own x-redmine-url header and carries its own
\* x-redmine-api-key as X-Redmine-API-Key, and the client it uses holds its own
\* credentials.
C4_RequestUsesOwnCredentials ==
    \A i \in Begun :
        invocations[i].sent # <<>> =>
            LET call == invocations[i].sent[1] IN
            /\ call.url[1] = HeaderText(UrlHeaderOf(i))[1]
            /\ Get(call.headers, "X-Redmine-API-Key") = Str(HeaderText(KeyHeaderOf(i)))
            /\ invocations[i].client.apiKey = HeaderText(KeyHeaderOf(i))
            /\ invocations[i].client.baseUrl[1] = HeaderText(UrlHeaderOf(i))[1]

\* two invocations of different callers are awaiting their responses at once
C4_Witness ==
    \E i, j \in Begun :
        /\ invocations[i].pc = "awaiting"
        /\ invocations[j].pc = "awaiting"
        /\ KeyHeaderOf(i) # KeyHeaderOf(j)
        /\ invocations[i].sent[1].url[1] = Origin
        /\ invocations[j].sent[1].url[1] = OtherOrigin

\* C5: the credentials a constructed client stores have a non-empty baseUrl, a
\* non-empty apiKey and a baseUrl without a trailing slash.
C5_StoredCredentialsInvariant ==
    \A i \in Begun :
        invocations[i].client.t = "client" =>
            /\ invocations[i].client.baseUrl # <<>>
            /\ invocations[i].client.apiKey # <<>>
            /\ invocations[i].client.baseUrl[Len(invocations[i].client.baseUrl)] # "/"

NonSuccess(i) ==
    /\ invocations[i].reply.t = "response"
    /\ ~(invocations[i].reply.status \in 200..299)

\* C6: a non-2xx response to any operation gives a tool response with isError
\* true whose text holds the status code and the raw body text, and the body is
\* not decoded into a result.
C6_NonSuccessCarriesStatusAndBody ==
    \A i \in Done :
        NonSuccess(i) =>
            /\ invocations[i].completion = "returned"
            /\ invocations[i].response.isError
            /\ Contains(ResponseText(i), ToString(invocations[i].reply.status))
            /\ ContainsText(ResponseText(i), invocations[i].reply.body)
            /\ invocations[i].result.t = "undefined"

\* a 422 whose body is Redmine's JSON error list, shown raw
C6_Witness ==
    \E i \in Done :
        /\ invocations[i].tool = "create_issue"
        /\ invocations[i].reply.t = "response"
        /\ invocations[i].reply.status = 422
        /\ invocations[i].reply.body = ErrorsResponse.body
        /\ invocations[i].response.isError
        /\ Contains(ResponseText(i), "422")
        /\ Contains(ResponseText(i), "Subject cannot be blank")

\* the answers Redmine gives to a PUT it has carried out: 204 without a body, or
\* a success status with the issue as JSON
UpdateCarriedOut(reply) ==
    /\ reply.t = "response"
    /\ reply.status \in 200..299
    /\ \/ reply.status = 204
       \/ /\ reply.body = IssueResponse.body
          /\ Get(reply.headers, "content-length") # Str(<<"0">>)

\* C7: an update_issue invocation that Redmine answered with a success status
\* returns a non-error response whose result holds an issue object.
C7_UpdateReturnsIssue ==
    \A i \in Done :
        (invocations[i].tool = "update_issue" /\ UpdateCarriedOut(invocations[i].reply)) =>
            /\ ~invocations[i].response.isError
            /\ Get(invocations[i].result, "issue").t = "object"

Success(i) ==
    /\ invocations[i].reply.t = "response"
    /\ invocations[i].reply.status \in 200..299

NoContent(i) ==
    \/ invocations[i].reply.status = 204
    \/ Get(invocations[i].reply.headers, "content-length") = Str(<<"0">>)

\* the sample bodies that are not JSON
Undecodable == {<<>>, <<"<html>">>}

\* C8: a success response with status 204 or content-length 0 gives the empty
\* result object and a non-error response, its body never being decoded; any
\* other success response is decoded, and a decode failure becomes an
\* error-flagged response.
C8_EmptyResultOrDecode ==
    \A i \in Done :
        Success(i) =>
            IF NoContent(i)
            THEN /\ invocations[i].result = Obj(<<>>)
                 /\ invocations[i].raised = "none"
                 /\ ~invocations[i].response.isError
                 /\ ResponseText(i) = <<"{", "}">>
            ELSE IF invocations[i].reply.body \in Undecodable
            THEN /\ invocations[i].raised = "decode"
                 /\ invocations[i].response.isError
            ELSE /\ invocations[i].raised = "none"
                 /\ ~invocations[i].response.isError
                 /\ JSONstringify(invocations[i].result) = invocations[i].reply.body

\* a 204 to update_issue, whose empty body would not decode, gives {}
C8_Witness ==
    \E i \in Done :
        /\ invocations[i].tool = "update_issue"
        /\ invocations[i].reply.t = "response"
        /\ invocations[i].reply.status = 204
        /\ invocations[i].reply.body \in Undecodable
        /\ invocations[i].result = Obj(<<>>)
        /\ ~invocations[i].response.isError

SuppliedKeys(i) == { invocations[i].args.v[n].key : n \in DOMAIN invocations[i].args.v }
Omitted(i) == OptionalKeys(invocations[i].tool) \ SuppliedKeys(i)

\* C9: in the request of every operation, an optional parameter the caller
\* omitted appears neither in the query string nor in the JSON body, nothing is
\* sent as null or undefined in its place, and a GET with no optional parameter
\* supplied has no "?" at all.
C9_OmittedParametersAreNotSent ==
    \A i \in Begun :
        invocations[i].sent # <<>> =>
            LET call == invocations[i].sent[1] IN
            /\ \A k \in Omitted(i) :
                  /\ ~Contains(call.url, k)
                  /\ call.body.t = "string" => ~Contains(call.body.v, k)
            /\ ~Contains(call.url, "undefined") /\ ~Contains(call.url, "null")
            /\ call.body.t = "string" =>
                  ~Contains(call.body.v, "undefined") /\ ~Contains(call.body.v, "null")
            /\ (MethodOf(invocations[i].tool) = "GET"
                /\ Omitted(i) = OptionalKeys(invocations[i].tool))
                  => ~Contains(call.url, "?")

\* list_issues with two of its eight optional parameters supplied: the query
\* holds those two and none of the six omitted
C9_Witness ==
    \E i \in Begun :
        /\ invocations[i].tool = "list_issues"
        /\ SuppliedKeys(i) = {"status_id", "limit"}
        /\ Cardinality(Omitted(i)) = 6
        /\ invocations[i].sent # <<>>
        /\ Contains(invocations[i].sent[1].url, "status_id")
        /\ Contains(invocations[i].sent[1].url, "limit")
        /\ ~Contains(invocations[i].sent[1].url, "offset")

\* texts that name a host: not empty, no slash in them
HostTexts == { h \in UrlTexts : h # <<>> /\ ~Contains(h, "/") }

\* C10: the client stores the base URL with exactly one trailing slash removed
\* when there is one and unchanged otherwise, so for any host the base URLs
\* host/ and host both give the request URL host/issues.json, with a single
\* slash between host and path.
C10_BaseUrlNormalization ==
    \A i \in Begun :
        invocations[i].client.t = "client" =>
            LET u == HeaderText(UrlHeaderOf(i))
                stored == invocations[i].client.baseUrl
            IN /\ u[Len(u)] = "/" => stored \o <<"/">> = u
               /\ u[Len(u)] # "/" => stored = u
               /\ \A h \in HostTexts :
                     (u \in {h, h \o <<"/">>} /\ invocations[i].tool = "list_issues"
                      /\ Omitted(i) = OptionalKeys("list_issues"))
                       => invocations[i].sent[1].url = h \o <<"/", "issues.json">>

\* list_issues for a base URL ending in a slash went to host/issues.json
C10_Witness ==
    \E i \in Begun :
        /\ invocations[i].tool = "list_issues"
        /\ invocations[i].client.t = "client"
        /\ HeaderText(UrlHeaderOf(i)) = <<Origin, "/">>
        /\ invocations[i].client.baseUrl = <<Origin>>
        /\ invocations[i].sent[1].url = <<Origin, "/", "issues.json">>

\* both credential headers are usable: sent, and not empty in their first value
CredentialsUsable(i) == HeadersOf(i).t = "object" /\ ~CredentialsMissing(i)

\* C11: a header supplied as a list resolves to the list's first element and a
\* header supplied as a single value to that value, whatever was served before:
\* the key the client holds and sends, and the base URL it holds, are those of
\* the first (or only) value of the invocation's own header mapping.
C11_ListHeaderResolvesToFirst ==
    \A i \in Begun :
        CredentialsUsable(i) =>
            LET url == UrlHeaderOf(i)
                key == KeyHeaderOf(i)
                firstUrl == IF url.t = "array" THEN url.v[1].v ELSE url.v
                firstKey == IF key.t = "array" THEN key.v[1].v ELSE key.v
                client == invocations[i].client
            IN /\ client.t = "client"
               /\ client.apiKey = firstKey
               /\ Get(invocations[i].sent[1].headers, "X-Redmine-API-Key") = Str(firstKey)
               /\ client.baseUrl \in {firstUrl, SubSeq(firstUrl, 1, Len(firstUrl) - 1)}
               /\ Len(client.baseUrl) >= Len(firstUrl) - 1

\* both headers came as lists of two values, after an earlier failure; the
\* first of each was taken
C11_Witness ==
    \E i \in Begun :
        /\ invocations[i].priorFailures > 0
        /\ UrlHeaderOf(i) = Arr(<<Str(<<Origin>>), Str(<<OtherOrigin>>)>>)
        /\ KeyHeaderOf(i) = Arr(<<Str(<<"key-b">>), Str(<<"key-a">>)>>)
        /\ invocations[i].client.t = "client"
        /\ invocations[i].client.apiKey = <<"key-b">>
        /\ invocations[i].client.baseUrl = <<Origin>>

\* the tabulated path of an invocation's operation, before any query string
TabulatedPath(i) ==
    LET id == Get(invocations[i].args, "id")
        idText == IF id.t = "number" THEN <<ToString(id.v)>> ELSE id.v
        tool == invocations[i].tool
    IN CASE tool = "list_projects" -> <<"/", "projects.json">>
         [] tool = "get_project" -> <<"/", "projects", "/">> \o idText \o <<".json">>
         [] tool = "list_issues" -> <<"/", "issues.json">>
         [] tool = "get_issue" -> <<"/", "issues", "/">> \o idText \o <<".json">>
         [] tool = "create_issue" -> <<"/", "issues.json">>
         [] tool = "update_issue" -> <<"/", "issues", "/">> \o idText \o <<".json">>

\* the keys of the members written in a JSON text: the fragment before each ":"
\* that follows a closing quote
WrittenKeys(text) ==
    { text[n - 2] : n \in { m \in DOMAIN text : m > 2 /\ text[m] = ":" /\ text[m - 1] = "\"" } }

\* C12: each operation issues its tabulated REST call: the method and path of
\* the table (GET paths followed by nothing or by "?" and a query), the headers
\* X-Redmine-API-Key and Content-Type: application/json and no other, no body on
\* GET, and on POST and PUT the body {issue: params} whose members are the
\* supplied arguments, for update_issue without the id.
C12_OperationsIssueTabulatedCalls ==
    \A i \in Begun :
        invocations[i].sent # <<>> =>
            LET call == invocations[i].sent[1]
                tool == invocations[i].tool
                target == invocations[i].client.baseUrl \o TabulatedPath(i)
                isGet == tool \in {"list_projects", "get_project", "list_issues", "get_issue"}
            IN /\ call.method = (IF isGet THEN "GET"
                                 ELSE IF tool = "create_issue" THEN "POST" ELSE "PUT")
               /\ Len(call.url) >= Len(target)
               /\ SubSeq(call.url, 1, Len(target)) = target
               /\ \/ call.url = target
                  \/ isGet /\ call.url[Len(target) + 1] = "?" /\ Len(call.url) > Len(target) + 1
               /\ Get(call.headers, "X-Redmine-API-Key") = Str(HeaderText(KeyHeaderOf(i)))
               /\ Get(call.headers, "Content-Type") = Str(<<"application/json">>)
               /\ Len(call.headers.v) = 2
               /\ isGet => call.body.t = "undefined"
               /\ ~isGet =>
                     /\ call.body.t = "string"
                     /\ SubSeq(call.body.v, 1, 6) = <<"{", "\"", "issue", "\"", ":", "{">>
                     /\ SubSeq(call.body.v, Len(call.body.v) - 1, Len(call.body.v)) = <<"}", "}">>
                     /\ WrittenKeys(call.body.v) =
                           {"issue"} \cup (SuppliedKeys(i) \ (IF tool = "update_issue"
                                                              THEN {"id"} ELSE {}))

\* update_issue {id, notes}: a PUT to /issues/<id>.json whose body holds the
\* notes and not the id
C12_Witness ==
    \E i \in Begun :
        /\ invocations[i].tool = "update_issue"
        /\ SuppliedKeys(i) = {"id", "notes"}
        /\ invocations[i].sent # <<>>
        /\ invocations[i].sent[1].method = "PUT"
        /\ invocations[i].sent[1].url = <<Origin, "/", "issues", "/", "42", ".json">>
        /\ WrittenKeys(invocations[i].sent[1].body.v) = {"issue", "notes"}

====
